---- MODULE Spec2Model ----
(***************************************************************************)
(* Sorted set stored as a weight-balanced binary search tree               *)
(* (src/sorted_set_as_weight_balanced_tree.c).                             *)
(*                                                                         *)
(* The heap is modelled with explicit node addresses 1..MaxKey; address 0  *)
(* is the shared sentinel nil_.  Every C function is an operator over a    *)
(* machine record m: the root link, the node fields, the allocation set,   *)
(* the two search-path stacks and the name of the first failed assertion.  *)
(* A failed assertion kills the process: from then on every write of the   *)
(* handler is skipped and no further operation starts.                     *)
(*                                                                         *)
(* A function whose body is a sequence of statements is written as a chain *)
(* of operators, each taking the machine the statements before it left.    *)
(*                                                                         *)
(* Two fields are kept beside the program's own: the machine field turns,  *)
(* the record of the turns the unwind loop made, and the variable did, a   *)
(* summary of that record for the last call.  No operator of the program   *)
(* reads either of them.                                                   *)
(*                                                                         *)
(* Sizes are u32 in the source; with at most MaxKey nodes the products     *)
(* 5 * (size + 1) stay far below 2^32, so no wrap-around is modelled.      *)
(***************************************************************************)
EXTENDS Integers, Sequences, FiniteSets

\* ---------------------------------------------------------------- bounds
\* keys are 1..MaxKey; a set never holds two matching elements, so MaxKey
\* node addresses are always enough for malloc to succeed
MaxKey == 7

Keys == 1 .. MaxKey
\* an element is a (key, val) pair: the comparators look at the key only,
\* val is the rest of the payload bytes
Vals == {0, 1}
Elements == [key : Keys, val : Vals]
\* content of a caller buffer nothing was copied into
NoElem == [key |-> 0, val |-> 0]

\* ------------------------------------------------------- 1) binary nodes
NIL == 0
Nodes == 1 .. MaxKey
Addrs == 0 .. MaxKey
\* value of *rank_copy_p when the caller passed GORNISHT (nothing written)
NoRank == 0

VARIABLES root, child, size, elem, alloc, abort, out, aset, did

vars == <<root, child, size, elem, alloc, abort, out, aset, did>>

\* user supplied comparators (is_match_u64 / is_less_u64 on the key field)
is_match(a, b) == a.key = b.key

is_less(a, b) == a.key < b.key

ok(m) == m.abort = "none"

\* assert(cond): the first failing assertion aborts the process
c_assert(m, cond, name) ==
  IF ok(m) /\ ~cond THEN [m EXCEPT !.abort = name] ELSE m

\* the writes a live process performs
set_root(m, node_p) == IF ok(m) THEN [m EXCEPT !.root = node_p] ELSE m

set_child(m, node_p, dir, to) == IF ok(m) THEN [m EXCEPT !.child[node_p][dir] = to] ELSE m

set_size(m, node_p, to) == IF ok(m) THEN [m EXCEPT !.size[node_p] = to] ELSE m

set_elem(m, node_p, to) == IF ok(m) THEN [m EXCEPT !.elem[node_p] = to] ELSE m

\* dst->child[ddir] = src->child[sdir]
copy_child(m, dst, ddir, src, sdir) == set_child(m, dst, ddir, m.child[src][sdir])

\* the stack collaborator (stack.h): LIFO of fixed-size items
STACK_PUSH(s, x) == Append(s, x)

STACK_PEEK(s) == s[Len(s)]

STACK_POP(s) == SubSeq(s, 1, Len(s) - 1)

stack_is_empty(s) == Len(s) = 0

stack_num_elmnts(s) == Len(s)

push_node(m, node_p) ==
  IF ok(m) THEN [m EXCEPT !.search_nodes = STACK_PUSH(@, node_p)] ELSE m

\* the direction not taken is the one recorded
push_dir_other(m, dir) ==
  IF ok(m) THEN [m EXCEPT !.search_dirs = STACK_PUSH(@, 1 - dir)] ELSE m

push_dir(m, dir) ==
  IF ok(m) THEN [m EXCEPT !.search_dirs = STACK_PUSH(@, dir)] ELSE m

pop_node(m) ==
  IF ok(m) THEN [m EXCEPT !.search_nodes = STACK_POP(@)] ELSE m

pop_dir(m) ==
  IF ok(m) THEN [m EXCEPT !.search_dirs = STACK_POP(@)] ELSE m

\* binary_node_get_element: assert(node_p != NIL), then the payload address
binary_node_get_element_chk(m, node_p) ==
  c_assert(m, node_p # NIL, "binary_node_get_element: node_p != NIL")

binary_node_get_element(m, node_p) == m.elem[node_p]

\* memcpy(binary_node_get_element(node_p), element, num_bytes_per_elmnt)
write_element(m, node_p, element) ==
  set_elem(binary_node_get_element_chk(m, node_p), node_p, element)

\* malloc: any free address will do, take the lowest
malloc(m) == CHOOSE n \in Nodes \ m.alloc : \A k \in Nodes \ m.alloc : n <= k

\* free: the block leaves the allocation set; its bytes are dead
free(m, node_p) ==
  IF ~ok(m) THEN m
  ELSE [m EXCEPT !.alloc = @ \ {node_p},
                 !.child[node_p] = [d \in 0 .. 1 |-> NIL],
                 !.size[node_p] = 0,
                 !.elem[node_p] = NoElem]

leaf_create_at(m, element, ret) ==
  [m |-> write_element([m EXCEPT !.alloc = @ \cup {ret},
                                 !.child[ret] = [d \in 0 .. 1 |-> NIL],
                                 !.size[ret] = 1],
                       ret, element),
   ret |-> ret]

leaf_create(m, element) ==
  IF ok(m) THEN leaf_create_at(m, element, malloc(m)) ELSE [m |-> m, ret |-> NIL]

\* a walk that calls fnc before it descends
RECURSIVE walk_node_first(_, _, _)
walk_node_first(m, node_p, dir) ==
  IF node_p = NIL THEN <<>>
  ELSE <<binary_node_get_element(m, node_p)>>
         \o walk_node_first(m, m.child[node_p][dir], dir)
         \o walk_node_first(m, m.child[node_p][1 - dir], dir)

\* dir = 0 for in order walk, dir = 1 for in reverse order walk
RECURSIVE walk(_, _, _)
walk(m, node_p, dir) ==
  IF node_p = NIL THEN <<>>
  ELSE walk(m, m.child[node_p][dir], dir)
         \o <<binary_node_get_element(m, node_p)>>
         \o walk(m, m.child[node_p][1 - dir], dir)

update_size(m, node_p) ==
  set_size(c_assert(m, node_p # NIL, "update_size: node_p != NIL"), node_p,
           1 + m.size[m.child[node_p][0]] + m.size[m.child[node_p][1]])

\* the closing assert and the return of rotation and double_rotation
rotation_done(m, x, temp, name) ==
  [m |-> c_assert(m, m.size[x] = temp, name), ret |-> x]

\* rotation with the two update_size calls swapped: x before y
rotation_body_x_first(m, y, x, dir, temp) ==
  rotation_done(update_size(update_size(set_child(copy_child(m, y, 1 - dir, x, dir),
                                                  x, dir, y), x), y),
                x, temp, "rotation: x->size == temp")

\* the statements of rotation after its first asserts
rotation_body(m, y, x, dir, temp) ==
  rotation_done(update_size(update_size(set_child(copy_child(m, y, 1 - dir, x, dir),
                                                  x, dir, y), y), x),
                x, temp, "rotation: x->size == temp")

rotation(m, y, dir) ==
  rotation_body(c_assert(c_assert(m, y # NIL, "rotation: y != NIL"),
                         m.child[y][1 - dir] # NIL, "rotation: x != NIL"),
                y, m.child[y][1 - dir], dir, m.size[y])

\* double_rotation with update_size(x) called first
double_rotation_body_x_first(m, z, y, x, dir, temp) ==
  rotation_done(
    update_size(update_size(update_size(
      set_child(copy_child(set_child(copy_child(m, y, dir, x, 1 - dir),
                                     x, 1 - dir, y),
                           z, 1 - dir, x, dir),
                x, dir, z), x), z), y),
    x, temp, "double_rotation: x->size == temp")

\* the statements of double_rotation after its first asserts
double_rotation_body(m, z, y, x, dir, temp) ==
  rotation_done(
    update_size(update_size(update_size(
      set_child(copy_child(set_child(copy_child(m, y, dir, x, 1 - dir),
                                     x, 1 - dir, y),
                           z, 1 - dir, x, dir),
                x, dir, z), z), y), x),
    x, temp, "double_rotation: x->size == temp")

double_rotation(m, z, dir) ==
  double_rotation_body(
    c_assert(c_assert(c_assert(m, z # NIL, "double_rotation: z != NIL"),
                      m.child[z][1 - dir] # NIL, "double_rotation: y != NIL"),
             m.child[m.child[z][1 - dir]][dir] # NIL, "double_rotation: x != NIL"),
    z, m.child[z][1 - dir], m.child[m.child[z][1 - dir]][dir], dir, m.size[z])

MIN(a, b) == IF a < b THEN a ELSE b

\* we will only use 2:3 and 2:5 ratios
\* the two asserts of node_imbalanced
node_imbalanced_chk(m, node_p, n1, n2) ==
  c_assert(c_assert(m, node_p # NIL, "node_imbalanced: node_p != NIL"),
           0 < MIN(n1, n2), "node_imbalanced: 0 < MIN(n1, n2)")

\* the test with the two children taken for one another
node_imbalanced_swapped(m, node_p, n1, n2, dir) ==
  n1 * (m.size[m.child[node_p][dir]] + 1)
    < n2 * (m.size[m.child[node_p][1 - dir]] + 1)

\* the value node_imbalanced returns
node_imbalanced(m, node_p, n1, n2, dir) ==
  n1 * (m.size[m.child[node_p][1 - dir]] + 1)
    < n2 * (m.size[m.child[node_p][dir]] + 1)

\* an owner is the address where the pointer to a node is stored: the root
\* field of the set or one of the child fields of a parent node
RootOwner == [root |-> TRUE, parent |-> NIL, dir |-> 0]

ChildOwner(parent, dir) == [root |-> FALSE, parent |-> parent, dir |-> dir]

\* *owner
deref(m, owner) ==
  IF owner.root THEN m.root ELSE m.child[owner.parent][owner.dir]

\* *owner = node_p
store(m, owner, node_p) ==
  IF owner.root THEN set_root(m, node_p)
  ELSE set_child(m, owner.parent, owner.dir, node_p)

\* *owner = rotation(...) / double_rotation(...)
store_ret(r, owner) == store(r.m, owner, r.ret)

\* the single rotation taken whatever the 2:3 test says
node_rebalance_rotate_single_only(m, node_p, owner, dir) ==
  IF ~ok(m) THEN m
  ELSE store_ret(rotation(m, node_p, 1 - dir), owner)

\* child dir of node_p is too heavy and passed the asserts of the 2:3 test
node_rebalance_rotate(m, node_p, owner, dir) ==
  IF ~ok(m) THEN m
  ELSE store_ret(IF node_imbalanced(m, m.child[node_p][dir], 2, 3, dir)
                 THEN rotation(m, node_p, 1 - dir)
                 ELSE double_rotation(m, node_p, 1 - dir),
                 owner)

\* the turn of the for loop of node_rebalance that finds child dir too heavy
node_rebalance_dir(m, node_p, owner, dir) ==
  node_rebalance_rotate(node_imbalanced_chk(m, m.child[node_p][dir], 2, 3),
                        node_p, owner, dir)

\* the for loop stopping after dir = 0
node_rebalance_for_left_only(m, node_p, owner) ==
  IF ~ok(m) THEN m
  ELSE IF node_imbalanced(m, node_p, 5, 2, 0)
  THEN node_rebalance_dir(m, node_p, owner, 0)
  ELSE m

\* the for loop of node_rebalance
node_rebalance_for(m, node_p, owner) ==
  IF ~ok(m) THEN m
  ELSE IF node_imbalanced(m, node_p, 5, 2, 0) \/ node_imbalanced(m, node_p, 5, 2, 1)
  THEN node_rebalance_dir(m, node_p, owner,
                          IF node_imbalanced(m, node_p, 5, 2, 0) THEN 0 ELSE 1)
  ELSE m

node_rebalance(m, node_p, owner) ==
  node_rebalance_for(
    node_imbalanced_chk(
      c_assert(c_assert(m, node_p # NIL, "node_rebalance: node_p != NIL"),
               deref(m, owner) = node_p, "node_rebalance: *owner == node_p"),
      node_p, 5, 2),
    node_p, owner)

\* ---------------------------------------------------------- 2) sorted set
sorted_set_get_num_elements(m) == m.size[m.root]

\* when looking for an element in the sorted set, we construct a search path
\* (nodes + directions) stemming from the root
get_owner_peek(m) ==
  IF ~ok(m) \/ stack_is_empty(m.search_nodes) THEN [m |-> m, ret |-> RootOwner]
  ELSE [m |-> c_assert(m, STACK_PEEK(m.search_nodes) # NIL, "get_owner: parent != NIL"),
        ret |-> ChildOwner(STACK_PEEK(m.search_nodes), STACK_PEEK(m.search_dirs))]

get_owner(m) ==
  get_owner_peek(
    c_assert(m, stack_num_elmnts(m.search_nodes) = stack_num_elmnts(m.search_dirs),
             "get_owner: num nodes == num dirs"))

\* node_rebalance(current, owner); update_size(current);
search_path_rebalance_step_late_size(o, current) ==
  update_size(node_rebalance(o.m, current, o.ret), current)

\* update_size(current); node_rebalance(current, owner);
search_path_rebalance_step(o, current) ==
  node_rebalance(update_size(o.m, current), current, o.ret)

\* turns is the record of the while loop of search_path_rebalance: one entry
\* per turn, with the machine before the turn, the node popped, its owner and
\* the machine the turn left.  The code keeps no such record; no operator of
\* the program reads it.
unlogged(m) == [m EXCEPT !.turns = <<>>]

logged(m, o, current) ==
  [m EXCEPT !.turns = Append(@, [m |-> unlogged(m), before |-> unlogged(o.m),
                                 owner |-> o.ret, current |-> current])]

\* one turn of the while loop
search_path_rebalance_turn(o, current) ==
  logged(search_path_rebalance_step(o, current), o, current)

RECURSIVE search_path_rebalance_loop(_)
search_path_rebalance_loop(m) ==
  IF ~ok(m) \/ stack_is_empty(m.search_nodes) THEN m
  ELSE search_path_rebalance_loop(
         search_path_rebalance_turn(get_owner(pop_dir(pop_node(m))),
                                    STACK_PEEK(m.search_nodes)))

search_path_rebalance(m) ==
  search_path_rebalance_loop(
    c_assert(m, stack_num_elmnts(m.search_nodes) = stack_num_elmnts(m.search_dirs),
             "search_path_rebalance: num nodes == num dirs"))

\* the while loop of remove_helper: walk to the smallest element of the
\* right subtree, pushing the nodes passed on the way
RECURSIVE remove_helper_descend(_, _)

\* the descent without dir = 0: the direction pushed stays 1
remove_helper_descend_dir_kept(m, node_p) ==
  IF m.child[node_p][0] = NIL THEN [m |-> m, ret |-> node_p]
  ELSE remove_helper_descend(push_dir(push_node(m, node_p), 1), m.child[node_p][0])

remove_helper_descend(m, node_p) ==
  IF m.child[node_p][0] = NIL THEN [m |-> m, ret |-> node_p]
  ELSE remove_helper_descend(push_dir(push_node(m, node_p), 0), m.child[node_p][0])

\* the splice without the free
remove_helper_free_leak(o, node_p, replacement) ==
  store(c_assert(o.m, deref(o.m, o.ret) = node_p, "remove_helper: *owner == node_p"),
        o.ret, replacement)

\* assert(*owner == node_p); *owner = replacement; free(node_p);
remove_helper_free(o, node_p, replacement) ==
  free(store(c_assert(o.m, deref(o.m, o.ret) = node_p, "remove_helper: *owner == node_p"),
             o.ret, replacement),
       node_p)

remove_helper_splice(m, node_p, replacement) ==
  remove_helper_free(get_owner(m), node_p, replacement)

\* the successor spliced out without its element being copied first
remove_helper_successor_no_memcpy(d, orig_node_p) ==
  remove_helper_splice(d.m, d.ret, d.m.child[d.ret][1])

\* memcpy(element of orig_node_p, element of node_p); replacement = node_p->child[1];
remove_helper_successor(d, orig_node_p) ==
  remove_helper_splice(
    write_element(binary_node_get_element_chk(d.m, d.ret), orig_node_p,
                  binary_node_get_element(d.m, d.ret)),
    d.ret, d.m.child[d.ret][1])

\* remove_helper without its third branch: the right child is dropped
remove_helper_body_two_branches(m, node_p) ==
  IF ~ok(m) THEN m
  ELSE IF m.child[node_p][0] = NIL THEN remove_helper_splice(m, node_p, m.child[node_p][1])
  ELSE remove_helper_splice(m, node_p, m.child[node_p][0])

\* the statements of remove_helper after its asserts
remove_helper_body(m, node_p) ==
  IF ~ok(m) THEN m
  ELSE IF m.child[node_p][0] = NIL THEN remove_helper_splice(m, node_p, m.child[node_p][1])
  ELSE IF m.child[node_p][1] = NIL THEN remove_helper_splice(m, node_p, m.child[node_p][0])
  ELSE \* rewrite node's element with the smallest element in the right subtree
       remove_helper_successor(
         remove_helper_descend(push_dir(push_node(m, node_p), 1), m.child[node_p][1]),
         node_p)

remove_helper(m, node_p) ==
  remove_helper_body(
    c_assert(c_assert(m, node_p # NIL, "remove_helper: node_p != NIL"),
             stack_num_elmnts(m.search_nodes) = stack_num_elmnts(m.search_dirs),
             "remove_helper: num nodes == num dirs"),
    node_p)

\* if(calc_rank) *rank_copy_p += current->child[0]->size;
rank_at_match_forgotten(m, current, rank, calc_rank) == rank

rank_at_match(m, current, rank, calc_rank) ==
  IF calc_rank THEN rank + m.size[m.child[current][0]] ELSE rank

\* if(calc_rank && dir == 1) *rank_copy_p += (1 + current->child[0]->size);
rank_going_right_short(m, current, rank, calc_rank) ==
  IF calc_rank THEN rank + m.size[m.child[current][0]] ELSE rank

rank_going_right(m, current, rank, calc_rank) ==
  IF calc_rank THEN rank + (1 + m.size[m.child[current][0]]) ELSE rank

\* what sorted_set_search hands back
SearchResult(m, ret, rank, copy) == [m |-> m, ret |-> ret, rank |-> rank, copy |-> copy]

RECURSIVE sorted_set_search_loop(_, _, _, _, _, _, _)

\* the loop body with the copy going from the caller's buffer into the node
sorted_set_search_visit_copy_in(m, element, construct_search_path, calc_rank, copy_if_found, current, rank) ==
  IF ~ok(m) THEN SearchResult(m, FALSE, rank, NoElem)
  ELSE IF is_match(element, binary_node_get_element(m, current))
  THEN SearchResult(IF copy_if_found THEN write_element(m, current, NoElem) ELSE m, TRUE,
                    rank_at_match(m, current, rank, calc_rank), NoElem)
  ELSE IF is_less(element, binary_node_get_element(m, current))
  THEN sorted_set_search_loop(IF construct_search_path THEN push_dir(m, 0) ELSE m,
                              element, construct_search_path, calc_rank, copy_if_found,
                              m.child[current][0], rank)
  ELSE sorted_set_search_loop(IF construct_search_path THEN push_dir(m, 1) ELSE m,
                              element, construct_search_path, calc_rank, copy_if_found,
                              m.child[current][1],
                              rank_going_right(m, current, rank, calc_rank))

\* the loop body of sorted_set_search once current is pushed and its element read
sorted_set_search_visit(m, element, construct_search_path, calc_rank, copy_if_found, current, rank) ==
  IF ~ok(m) THEN SearchResult(m, FALSE, rank, NoElem)
  ELSE IF is_match(element, binary_node_get_element(m, current))
  THEN SearchResult(m, TRUE,
                    rank_at_match(m, current, rank, calc_rank),
                    IF copy_if_found THEN binary_node_get_element(m, current) ELSE NoElem)
  ELSE IF is_less(element, binary_node_get_element(m, current))
  THEN sorted_set_search_loop(IF construct_search_path THEN push_dir(m, 0) ELSE m,
                              element, construct_search_path, calc_rank, copy_if_found,
                              m.child[current][0], rank)
  ELSE sorted_set_search_loop(IF construct_search_path THEN push_dir(m, 1) ELSE m,
                              element, construct_search_path, calc_rank, copy_if_found,
                              m.child[current][1],
                              rank_going_right(m, current, rank, calc_rank))

\* the loop going on when current is NIL
sorted_set_search_loop_past_nil(m, element, construct_search_path, calc_rank, copy_if_found, current, rank) ==
  IF ~ok(m) THEN SearchResult(m, FALSE, rank, NoElem)
  ELSE sorted_set_search_visit(
         binary_node_get_element_chk(
           IF construct_search_path THEN push_node(m, current) ELSE m, current),
         element, construct_search_path, calc_rank, copy_if_found, current, rank)

\* while(current != NIL) of sorted_set_search
sorted_set_search_loop(m, element, construct_search_path, calc_rank, copy_if_found, current, rank) ==
  IF ~ok(m) \/ current = NIL THEN SearchResult(m, FALSE, rank, NoElem)
  ELSE sorted_set_search_visit(
         binary_node_get_element_chk(
           IF construct_search_path THEN push_node(m, current) ELSE m, current),
         element, construct_search_path, calc_rank, copy_if_found, current, rank)

\* the stacks are GORNISHT when no search path is constructed; they are
\* then left alone
sorted_set_search(m, element, construct_search_path, calc_rank, copy_if_found) ==
  sorted_set_search_loop(
    IF construct_search_path
    THEN c_assert(m, stack_is_empty(m.search_nodes) /\ stack_is_empty(m.search_dirs),
                  "sorted_set_search: stacks empty")
    ELSE m,
    element, construct_search_path, calc_rank, copy_if_found,
    m.root, IF calc_rank THEN 1 ELSE NoRank)

sorted_set_contains(m, element, copy_if_found, calc_rank) ==
  sorted_set_search(m, element, FALSE, calc_rank, copy_if_found)

\* an insert that leaves the stored element as it was
insert_or_remove_match_keep(m, node_p, element, op_insert) ==
  IF ~ok(m) THEN m
  ELSE IF op_insert THEN m
  ELSE search_path_rebalance(remove_helper(m, node_p))

\* already inside, node_p popped and checked to match
insert_or_remove_match(m, node_p, element, op_insert) ==
  IF ~ok(m) THEN m
  ELSE IF op_insert THEN write_element(m, node_p, element)
  ELSE search_path_rebalance(remove_helper(m, node_p))

\* STACK_POP(search_nodes, node_p); assert(is_match(element, element of node_p));
insert_or_remove_pop(m, element, op_insert) ==
  IF ~ok(m) THEN m
  ELSE insert_or_remove_match(
         c_assert(binary_node_get_element_chk(pop_node(m), STACK_PEEK(m.search_nodes)),
                  is_match(element, binary_node_get_element(m, STACK_PEEK(m.search_nodes))),
                  "insert_or_remove: is_match(element, node_p)"),
         STACK_PEEK(m.search_nodes), element, op_insert)

\* *owner = the new leaf; search_path_rebalance(...);
insert_or_remove_link(l, owner) ==
  search_path_rebalance(store(l.m, owner, l.ret))

\* not inside and op_insert: the owner of the missing link is known
insert_or_remove_leaf(o, element) ==
  insert_or_remove_link(
    leaf_create(c_assert(o.m, deref(o.m, o.ret) = NIL, "insert_or_remove: *owner == NIL"),
                element),
    o.ret)

\* the last branch taken whatever op_insert is
insert_or_remove_after_else(s, element, op_insert) ==
  [m |-> IF ~ok(s.m) THEN s.m
         ELSE IF s.ret
         THEN insert_or_remove_pop(
                c_assert(s.m, stack_num_elmnts(s.m.search_nodes)
                                = 1 + stack_num_elmnts(s.m.search_dirs),
                         "insert_or_remove: num nodes == 1 + num dirs"),
                element, op_insert)
         ELSE insert_or_remove_leaf(get_owner(s.m), element),
   ret |-> s.ret,
   rank |-> s.rank]

\* the statements of sorted_set_insert_or_remove after the search
insert_or_remove_after(s, element, op_insert) ==
  [m |-> IF ~ok(s.m) THEN s.m
         ELSE IF s.ret
         THEN insert_or_remove_pop(
                c_assert(s.m, stack_num_elmnts(s.m.search_nodes)
                                = 1 + stack_num_elmnts(s.m.search_dirs),
                         "insert_or_remove: num nodes == 1 + num dirs"),
                element, op_insert)
         ELSE IF op_insert THEN insert_or_remove_leaf(get_owner(s.m), element)
         ELSE s.m,
   ret |-> s.ret,
   rank |-> s.rank]

sorted_set_insert_or_remove(m, element, op_insert, calc_rank) ==
  insert_or_remove_after(sorted_set_search(m, element, TRUE, calc_rank, FALSE),
                         element, op_insert)

sorted_set_insert(m, element, calc_rank) ==
  sorted_set_insert_or_remove(m, element, TRUE, calc_rank)

sorted_set_remove(m, element, calc_rank) ==
  sorted_set_insert_or_remove(m, element, FALSE, calc_rank)

RECURSIVE sorted_set_search_by_rank_loop(_, _, _, _, _)

\* rank == 1 + current->child[0]->size: copy the element out and return
search_by_rank_found(m, copy_when_found, current) ==
  [m |-> m,
   copy |-> IF copy_when_found /\ ok(m) THEN binary_node_get_element(m, current)
            ELSE NoElem]

\* rank -= (1 + current->child[0]->size);
rank_in_right_short(m, current, rank) == rank - m.size[m.child[current][0]]

rank_in_right(m, current, rank) == rank - (1 + m.size[m.child[current][0]])

\* the loop body of sorted_set_search_by_rank after its asserts and its push
search_by_rank_visit(m, rank, construct_search_path, copy_when_found, current) ==
  IF ~ok(m) THEN [m |-> m, copy |-> NoElem]
  ELSE IF rank = 1 + m.size[m.child[current][0]]
  THEN search_by_rank_found(
         IF copy_when_found THEN binary_node_get_element_chk(m, current) ELSE m,
         copy_when_found, current)
  ELSE IF rank < 1 + m.size[m.child[current][0]]
  THEN sorted_set_search_by_rank_loop(
         IF construct_search_path THEN push_dir(m, 0) ELSE m,
         rank, construct_search_path, copy_when_found, m.child[current][0])
  ELSE sorted_set_search_by_rank_loop(
         IF construct_search_path THEN push_dir(m, 1) ELSE m,
         rank_in_right(m, current, rank),
         construct_search_path, copy_when_found, m.child[current][1])

\* the push that follows the two asserts
search_by_rank_push(m, rank, construct_search_path, copy_when_found, current) ==
  search_by_rank_visit(IF construct_search_path THEN push_node(m, current) ELSE m,
                       rank, construct_search_path, copy_when_found, current)

\* the second assert letting one rank too many through
sorted_set_search_by_rank_loop_slack(m, rank, construct_search_path, copy_when_found, current) ==
  search_by_rank_push(
    c_assert(c_assert(m, 1 <= rank, "search_by_rank: 1 <= rank"),
             rank <= m.size[current] + 1, "search_by_rank: rank <= current->size"),
    rank, construct_search_path, copy_when_found, current)

\* while(true) of sorted_set_search_by_rank with its two asserts
sorted_set_search_by_rank_loop(m, rank, construct_search_path, copy_when_found, current) ==
  search_by_rank_push(
    c_assert(c_assert(m, 1 <= rank, "search_by_rank: 1 <= rank"),
             rank <= m.size[current], "search_by_rank: rank <= current->size"),
    rank, construct_search_path, copy_when_found, current)

sorted_set_search_by_rank(m, rank, construct_search_path, copy_when_found) ==
  sorted_set_search_by_rank_loop(
    IF construct_search_path
    THEN c_assert(m, stack_is_empty(m.search_nodes) /\ stack_is_empty(m.search_dirs),
                  "sorted_set_search_by_rank: stacks empty")
    ELSE m,
    rank, construct_search_path, copy_when_found, m.root)

sorted_set_get_element_by_rank(m, rank, copy_when_found) ==
  sorted_set_search_by_rank(m, rank, FALSE, copy_when_found)

\* STACK_POP(search_nodes, node_p); remove_helper(...); search_path_rebalance(...);
remove_by_rank_pop(m) ==
  IF ~ok(m) THEN m
  ELSE search_path_rebalance(remove_helper(pop_node(m), STACK_PEEK(m.search_nodes)))

\* the statements of sorted_set_remove_by_rank after the search
remove_by_rank_after(s) ==
  [m |-> remove_by_rank_pop(
           c_assert(s.m, stack_num_elmnts(s.m.search_nodes)
                           = 1 + stack_num_elmnts(s.m.search_dirs),
                    "remove_by_rank: num nodes == 1 + num dirs")),
   copy |-> s.copy]

sorted_set_remove_by_rank(m, rank, copy_when_found) ==
  remove_by_rank_after(sorted_set_search_by_rank(m, rank, TRUE, copy_when_found))

walk_in_order(m) == walk(m, m.root, 0)

walk_in_reverse(m) == walk(m, m.root, 1)

\* ------------------------------------------------------------ the program
\* Addresses are opaque to the program: no result depends on which free
\* block malloc hands out.  The heap is therefore kept up to a renaming of
\* addresses: after a call that changed a link or the allocation set, the
\* nodes are renumbered 1, 2, ... in in-order position.

\* the nodes of the subtree at node_p in in-order, each with its old address
\* and with its child links already renamed; the first one gets address
\* base + 1, and pos is the new address of node_p itself
RECURSIVE relabel(_, _, _, _)

relabel_right(m, node_p, base, l, r) ==
  [seq |-> l.seq \o <<[addr |-> node_p,
                       child |-> [d \in 0 .. 1 |-> IF d = 0 THEN l.pos ELSE r.pos],
                       size |-> m.size[node_p],
                       elem |-> m.elem[node_p]]>> \o r.seq,
   pos |-> base + Len(l.seq) + 1]

relabel_left(m, node_p, base, l, fuel) ==
  relabel_right(m, node_p, base, l,
                relabel(m, m.child[node_p][1], base + Len(l.seq) + 1, fuel))

relabel(m, node_p, base, fuel) ==
  IF node_p = NIL \/ fuel = 0 THEN [seq |-> <<>>, pos |-> NIL]
  ELSE relabel_left(m, node_p, base, relabel(m, m.child[node_p][0], base, fuel - 1),
                    fuel - 1)

\* the heap with the nodes of t.seq at addresses 1, 2, ...; a heap whose
\* linked nodes are not exactly the allocated ones, each of them once, is
\* left as it is
renumber(m, t) ==
  IF Len(t.seq) > MaxKey \/ {t.seq[i].addr : i \in 1 .. Len(t.seq)} # m.alloc
       \/ Cardinality(m.alloc) # Len(t.seq) THEN m
  ELSE [m EXCEPT !.root = t.pos,
                 !.child = [a \in Addrs |-> IF a \in 1 .. Len(t.seq) THEN t.seq[a].child
                                            ELSE IF a = NIL THEN m.child[NIL]
                                            ELSE [d \in 0 .. 1 |-> NIL]],
                 !.size = [a \in Addrs |-> IF a \in 1 .. Len(t.seq) THEN t.seq[a].size
                                           ELSE IF a = NIL THEN m.size[NIL] ELSE 0],
                 !.elem = [a \in Addrs |-> IF a \in 1 .. Len(t.seq) THEN t.seq[a].elem
                                           ELSE IF a = NIL THEN m.elem[NIL] ELSE NoElem],
                 !.alloc = 1 .. Len(t.seq)]

\* a call that left every link and the allocation set alone left the
\* numbering alone
canon(m) ==
  IF m.root = root /\ m.child = child /\ m.alloc = alloc THEN m
  ELSE renumber(m, relabel(m, m.root, 0, MaxKey + 1))

\* the machine an operation starts on: the set as it stands and two fresh
\* stacks (stack_create)
Mach ==
  [root |-> root, child |-> child, size |-> size, elem |-> elem, alloc |-> alloc,
   abort |-> abort, search_nodes |-> <<>>, search_dirs |-> <<>>, turns |-> <<>>]

\* the set as the finished operation leaves it (the stacks are destroyed)
store_set(m) ==
  /\ root' = m.root
  /\ child' = m.child
  /\ size' = m.size
  /\ elem' = m.elem
  /\ alloc' = m.alloc
  /\ abort' = m.abort

commit(m) == store_set(canon(m))

\* what the last call handed back to its caller
Out(op, element, rank_in, ret, rank, copy, walked) ==
  [op |-> op, element |-> element, rank_in |-> rank_in, ret |-> ret,
   rank |-> rank, copy |-> copy, walked |-> walked]

\* ------------------------------------------------- inside a call
\* The steps of a call between its search and its unwind.

\* the machine search_path_rebalance is called on by a new-key insert:
\* owner = get_owner(...); assert(*owner == NIL); *owner = leaf_create(...);
linked_leaf(l, owner) == store(l.m, owner, l.ret)

insert_start_at(o, element) ==
  linked_leaf(leaf_create(c_assert(o.m, deref(o.m, o.ret) = NIL,
                                   "insert_or_remove: *owner == NIL"),
                          element),
              o.ret)

insert_start(s, element) == insert_start_at(get_owner(s.m), element)

\* the machine search_path_rebalance is called on by a removal:
\* STACK_POP(search_nodes, node_p); remove_helper(...);
remove_start(s) == remove_helper(pop_node(s.m), STACK_PEEK(s.m.search_nodes))

\* the turn rotated: the owner slot holds another node than the one popped
rotated(st) == ok(st.m) /\ deref(st.m, st.owner) # st.current

\* a single rotation lifts a child of the node popped, a double rotation a
\* grandchild
single_rotated(st) ==
  /\ rotated(st)
  /\ \E d \in 0 .. 1 : deref(st.m, st.owner) = st.before.child[st.current][d]

double_rotated(st) ==
  /\ rotated(st)
  /\ \A d \in 0 .. 1 : deref(st.m, st.owner) # st.before.child[st.current][d]

\* the rotation moved a subtree that is not empty from one node to another
moved_subtree(st) ==
  /\ rotated(st)
  /\ \E d \in 0 .. 1 :
       /\ st.m.child[deref(st.m, st.owner)][d] = st.current
       /\ \/ st.m.child[st.current][1 - d] # st.before.child[st.current][1 - d]
             /\ st.m.child[st.current][1 - d] # NIL
          \/ /\ double_rotated(st)
             /\ st.m.child[st.m.child[deref(st.m, st.owner)][1 - d]][d] # NIL

\* the unwind started after remove_helper had copied the successor's element
\* into the node found: a node still allocated holds another element than in
\* the state before the call
copied(tr) ==
  /\ Len(tr) > 0
  /\ \E n \in tr[1].before.alloc : tr[1].before.elem[n] # elem[n]

\* did is what the last call did inside: the turns of its unwind, the
\* rotations among them, and whether the removal went on to a successor
Did(tr) ==
  [steps |-> Len(tr),
   singles |-> Cardinality({i \in 1 .. Len(tr) : single_rotated(tr[i])}),
   doubles |-> Cardinality({i \in 1 .. Len(tr) : double_rotated(tr[i])}),
   moved |-> Cardinality({i \in 1 .. Len(tr) : moved_subtree(tr[i])}),
   copied |-> copied(tr)]

NoDid == Did(<<>>)

\* the path-recording search of a keyed call
search_keyed(element) == sorted_set_search(Mach, element, TRUE, TRUE, FALSE)

\* the path-recording search of sorted_set_remove_by_rank
search_ranked(rank) == sorted_set_search_by_rank(Mach, rank, TRUE, TRUE)

\* aset is the mathematical set the calls made so far describe: it is kept
\* by the rules of a set of elements with one element per key, without
\* looking at the tree
aset_insert(element) == {x \in aset : ~is_match(element, x)} \cup {element}

aset_remove(element) == {x \in aset : ~is_match(element, x)}

\* the elements of S by increasing key
RECURSIVE sorted_seq(_)
sorted_seq(S) ==
  IF S = {} THEN <<>>
  ELSE <<CHOOSE x \in S : \A y \in S : ~is_less(y, x)>>
         \o sorted_seq(S \ {CHOOSE x \in S : \A y \in S : ~is_less(y, x)})

aset_remove_by_rank(rank) ==
  IF rank \in 1 .. Cardinality(aset) THEN aset \ {sorted_seq(aset)[rank]} ELSE aset

\* sorted_set_create
Init ==
  /\ root = NIL
  /\ child = [n \in Addrs |-> [d \in 0 .. 1 |-> NIL]]
  /\ size = [n \in Addrs |-> 0]
  /\ elem = [n \in Addrs |-> NoElem]
  /\ alloc = {}
  /\ abort = "none"
  /\ out = Out("create", NoElem, NoRank, FALSE, NoRank, NoElem, <<>>)
  /\ aset = {}
  /\ did = NoDid

\* a keyed call returned r and left copy in the caller's buffer
Keyed(op, element, r, copy) ==
  /\ commit(r.m)
  /\ out' = Out(op, element, NoRank, r.ret, r.rank, copy, <<>>)
  /\ did' = Did(r.m.turns)

\* sorted_set_contains returned r
Found(element, r) == Keyed("contains", element, r, r.copy)

\* a call by rank returned r
Ranked(op, rank, r) ==
  /\ commit(r.m)
  /\ out' = Out(op, NoElem, rank, FALSE, NoRank, r.copy, <<>>)
  /\ did' = Did(r.m.turns)

Insert(element, calc_rank) ==
  /\ abort = "none"
  /\ Keyed("insert", element, sorted_set_insert(Mach, element, calc_rank), NoElem)
  /\ aset' = aset_insert(element)

Remove(element, calc_rank) ==
  /\ abort = "none"
  /\ Keyed("remove", element, sorted_set_remove(Mach, element, calc_rank), NoElem)
  /\ aset' = aset_remove(element)

Contains(element, copy_if_found, calc_rank) ==
  /\ abort = "none"
  /\ Found(element, sorted_set_contains(Mach, element, copy_if_found, calc_rank))
  /\ UNCHANGED aset

GetElementByRank(rank, copy_when_found) ==
  /\ abort = "none"
  /\ Ranked("get_element_by_rank", rank,
            sorted_set_get_element_by_rank(Mach, rank, copy_when_found))
  /\ UNCHANGED aset

RemoveByRank(rank, copy_when_found) ==
  /\ abort = "none"
  /\ Ranked("remove_by_rank", rank,
            sorted_set_remove_by_rank(Mach, rank, copy_when_found))
  /\ aset' = aset_remove_by_rank(rank)

WalkInOrder ==
  /\ abort = "none"
  /\ out' = Out("walk_in_order", NoElem, NoRank, FALSE, NoRank, NoElem, walk_in_order(Mach))
  /\ UNCHANGED <<root, child, size, elem, alloc, abort, aset>>
  /\ did' = NoDid

WalkInReverse ==
  /\ abort = "none"
  /\ out' = Out("walk_in_reverse", NoElem, NoRank, FALSE, NoRank, NoElem, walk_in_reverse(Mach))
  /\ UNCHANGED <<root, child, size, elem, alloc, abort, aset>>
  /\ did' = NoDid

\* ranks a caller may pass, the invalid ones 0 and MaxKey + 1 included
Ranks == 0 .. MaxKey + 1

\* the callers of Spec store plain keys (val 0) and ask for every output
PlainElements == {e \in Elements : e.val = 0}

Next ==
  \/ \E e \in PlainElements : Insert(e, TRUE)
  \/ \E e \in PlainElements : Remove(e, TRUE)
  \/ \E e \in PlainElements : Contains(e, TRUE, TRUE)
  \/ \E r \in Ranks : GetElementByRank(r, TRUE)
  \/ \E r \in Ranks : RemoveByRank(r, TRUE)
  \/ WalkInOrder
  \/ WalkInReverse

Spec == Init /\ [][Next]_vars

\* The callers of SpecVal store every payload and pass GORNISHT for any
\* output they like, over the keys 1..MaxValKey.
MaxValKey == 3

ValElements == {e \in Elements : e.key <= MaxValKey}

ValRanks == 0 .. MaxValKey + 1

NextVal ==
  \/ \E e \in ValElements, calc_rank \in BOOLEAN : Insert(e, calc_rank)
  \/ \E e \in ValElements, calc_rank \in BOOLEAN : Remove(e, calc_rank)
  \/ \E e \in ValElements, copy_if_found \in BOOLEAN, calc_rank \in BOOLEAN :
       Contains(e, copy_if_found, calc_rank)
  \/ \E r \in ValRanks, copy_when_found \in BOOLEAN : GetElementByRank(r, copy_when_found)
  \/ \E r \in ValRanks, copy_when_found \in BOOLEAN : RemoveByRank(r, copy_when_found)
  \/ WalkInOrder
  \/ WalkInReverse

SpecVal == Init /\ [][NextVal]_vars

\* ----------------------------------------------------------------- claims
\* the real nodes linked below node_p in machine m
RECURSIVE nodes_below(_, _, _)
nodes_below(m, node_p, fuel) ==
  IF node_p = NIL \/ fuel = 0 THEN {}
  ELSE {node_p} \cup nodes_below(m, m.child[node_p][0], fuel - 1)
                \cup nodes_below(m, m.child[node_p][1], fuel - 1)

\* the real nodes of the tree
TreeNodes == nodes_below(Mach, root, MaxKey + 1)

\* the elements the tree stores
Stored == {elem[n] : n \in TreeNodes}

\* the 1-based position in seq of the element matching e, 0 if there is none
position(seq, e) ==
  IF \E i \in 1 .. Len(seq) : is_match(e, seq[i])
  THEN CHOOSE i \in 1 .. Len(seq) : is_match(e, seq[i])
  ELSE 0

reverse(seq) == [i \in 1 .. Len(seq) |-> seq[Len(seq) + 1 - i]]

\* C1: after any sequence of insert, remove and remove-by-rank calls every
\* real node satisfies the weight balance I3 in both directions:
\* 5 * (size(child[1-d]) + 1) >= 2 * (size(child[d]) + 1)
C1_WeightBalance ==
  \A n \in TreeNodes : \A d \in 0 .. 1 :
    5 * (size[child[n][1 - d]] + 1) >= 2 * (size[child[n][d]] + 1)

\* a removal left a tree of at least six nodes one of whose nodes sits
\* exactly on the 5:2 limit (children of sizes 1 and 4)
C1_Witness ==
  /\ out.op \in {"remove", "remove_by_rank"}
  /\ size[root] >= 6
  /\ \E n \in TreeNodes : \E d \in 0 .. 1 :
       size[child[n][d]] = 4 /\ size[child[n][1 - d]] = 1

\* C2: every real node has size 1 + size(left) + size(right), the empty
\* marker has size 0, and sorted_set_get_num_elements is the number of
\* elements stored
C2_Sizes ==
  /\ \A n \in TreeNodes : size[n] = 1 + size[child[n][0]] + size[child[n][1]]
  /\ size[NIL] = 0
  /\ sorted_set_get_num_elements(Mach) = Cardinality(TreeNodes)
  /\ sorted_set_get_num_elements(Mach) = Len(walk_in_order(Mach))
  /\ sorted_set_get_num_elements(Mach) = Cardinality(aset)

\* an insert that turned a six node tree into a seven node one
C2_Witness ==
  /\ out.op = "insert"
  /\ ~out.ret
  /\ size[root] = 7
  /\ Cardinality(TreeNodes) = 7

\* C3: walk_in_order visits every stored element exactly once, in strictly
\* increasing order under is_less (so no two stored elements match), and
\* walk_in_reverse visits exactly the reverse of that sequence
C3_WalkOrder ==
  /\ \A i \in 1 .. Len(walk_in_order(Mach)) - 1 :
       is_less(walk_in_order(Mach)[i], walk_in_order(Mach)[i + 1])
  /\ Len(walk_in_order(Mach)) = Cardinality(TreeNodes)
  /\ {walk_in_order(Mach)[i] : i \in 1 .. Len(walk_in_order(Mach))} = Stored
  /\ walk_in_reverse(Mach) = reverse(walk_in_order(Mach))
  /\ out.op = "walk_in_order" => out.walked = walk_in_order(Mach)
  /\ out.op = "walk_in_reverse" => out.walked = reverse(walk_in_order(Mach))

\* a reverse walk over at least five elements
C3_Witness ==
  /\ out.op = "walk_in_reverse"
  /\ Len(out.walked) >= 5
  /\ is_less(out.walked[2], out.walked[1])

\* C4: the tree refines a mathematical set: contains(x) is true iff x was
\* inserted and not removed since, and the in-order traversal is the sorted
\* sequence of that set (whatever the order of the calls that built it)
C4_Refinement ==
  /\ abort = "none" =>
       \A e \in Elements :
         sorted_set_contains(Mach, e, FALSE, FALSE).ret <=> \E x \in aset : is_match(e, x)
  /\ walk_in_order(Mach) = sorted_seq(aset)
  /\ out.op = "contains" => (out.ret <=> \E x \in aset : is_match(out.element, x))

\* contains said no for a key lying between two stored keys of a set of at
\* least four elements
C4_Witness ==
  /\ out.op = "contains"
  /\ ~out.ret
  /\ Cardinality(aset) >= 4
  /\ \E x \in aset : is_less(x, out.element)
  /\ \E x \in aset : is_less(out.element, x)

\* C5: for every rank r in 1..n, select-by-rank(r) returns the element at
\* in-order position r, and contains on that element, rank requested,
\* returns true and reports rank r
C5_RankRoundTrip ==
  /\ \A r \in 1 .. size[root] :
       abort = "none" =>
       /\ sorted_set_get_element_by_rank(Mach, r, TRUE).copy = walk_in_order(Mach)[r]
       /\ sorted_set_contains(Mach, walk_in_order(Mach)[r], FALSE, TRUE).ret
       /\ sorted_set_contains(Mach, walk_in_order(Mach)[r], FALSE, TRUE).rank = r
  /\ (out.op = "get_element_by_rank" /\ abort = "none")
       => out.copy = walk_in_order(Mach)[out.rank_in]
  /\ (out.op = "contains" /\ out.ret)
       => walk_in_order(Mach)[out.rank] = out.copy

\* select-by-rank answered for a rank in the right subtree of a root that
\* has a left subtree
C5_Witness ==
  /\ out.op = "get_element_by_rank"
  /\ abort = "none"
  /\ size[root] >= 5
  /\ out.rank_in > size[child[root][0]] + 1
  /\ size[child[root][0]] >= 1

\* the stored element that matches e
Matching(e) == {x \in Stored : is_match(e, x)}

\* C6: an insert that matches a stored element returns 'already present',
\* leaves the size, every link and every other node alone and replaces only
\* the matched node's payload by the new element; an insert with no match
\* returns 'not present' and makes the size one larger; so repeating an
\* insert changes neither the contents nor the size
C6_InsertSetSemantics ==
  [][out'.op = "insert" =>
       /\ (Matching(out'.element) # {}) =>
            /\ out'.ret
            /\ root' = root /\ child' = child /\ size' = size /\ alloc' = alloc
            /\ \E n \in TreeNodes :
                 /\ is_match(out'.element, elem[n])
                 /\ elem' = [elem EXCEPT ![n] = out'.element]
       /\ (Matching(out'.element) = {}) =>
            /\ ~out'.ret
            /\ sorted_set_get_num_elements(Mach') = sorted_set_get_num_elements(Mach) + 1
            /\ Stored' = Stored \cup {out'.element}
       /\ (out.op = "insert" /\ out.element = out'.element) =>
            /\ Stored' = Stored
            /\ sorted_set_get_num_elements(Mach') = sorted_set_get_num_elements(Mach)]_vars

\* an insert found its key already stored, in a node below the root, and
\* left the payload val 1 there
C6_Witness ==
  /\ out.op = "insert"
  /\ out.ret
  /\ out.element.val = 1
  /\ out.element \in Stored
  /\ ~is_match(out.element, elem[root])
  /\ size[root] >= 3

\* C7: remove(x) of a present key returns 'was present', makes the size one
\* smaller, makes contains(x) false and leaves every other stored element
\* contained, also when the node found has two non-empty children
C7_RemovePresent ==
  [][(out'.op = "remove" /\ Matching(out'.element) # {}) =>
       /\ out'.ret
       /\ sorted_set_get_num_elements(Mach') = sorted_set_get_num_elements(Mach) - 1
       /\ ~sorted_set_contains(Mach', out'.element, FALSE, FALSE).ret
       /\ Stored' = Stored \ Matching(out'.element)
       /\ \A y \in Stored \ Matching(out'.element) :
            sorted_set_contains(Mach', y, FALSE, FALSE).ret]_vars

\* a remove found its key, neither the smallest nor the largest, and left at
\* least five elements
C7_Witness ==
  /\ out.op = "remove"
  /\ out.ret
  /\ size[root] >= 5
  /\ out.rank > 1
  /\ out.rank <= size[root]

\* C8: remove(x) of an absent key returns 'not present', fails no
\* assertion and leaves the root link, every child link, every size and
\* every payload as they were
C8_RemoveAbsent ==
  [][(out'.op = "remove" /\ Matching(out'.element) = {}) =>
       /\ ~out'.ret
       /\ abort' = "none"
       /\ root' = root /\ child' = child /\ size' = size /\ elem' = elem
       /\ alloc' = alloc]_vars

\* a remove did not find its key in a set of at least four elements
C8_Witness ==
  /\ out.op = "remove"
  /\ ~out.ret
  /\ abort = "none"
  /\ size[root] >= 4

\* C9: remove-by-rank(r) with 1 <= r <= n returns a copy of the element at
\* in-order position r, removes exactly that element and makes the size
\* one smaller
C9_RemoveByRank ==
  [][(out'.op = "remove_by_rank" /\ out'.rank_in \in 1 .. sorted_set_get_num_elements(Mach)) =>
       /\ abort' = "none"
       /\ out'.copy = walk_in_order(Mach)[out'.rank_in]
       /\ Stored' = Stored \ {out'.copy}
       /\ sorted_set_get_num_elements(Mach') = sorted_set_get_num_elements(Mach) - 1
       /\ ~sorted_set_contains(Mach', out'.copy, FALSE, FALSE).ret
       /\ \A y \in Stored \ {out'.copy} :
            sorted_set_contains(Mach', y, FALSE, FALSE).ret]_vars

\* a remove-by-rank took an inner element out and left at least five
C9_Witness ==
  /\ out.op = "remove_by_rank"
  /\ abort = "none"
  /\ out.copy # NoElem
  /\ out.rank_in >= 2
  /\ out.rank_in <= size[root]
  /\ size[root] >= 5

\* C10: with a rank output requested, insert(x) reports the 1-based in-order
\* position x has in the set after the call, and remove(x) of a present key
\* reports the position x had before the removal
C10_RankOutputs ==
  [][/\ out'.op = "insert" =>
          /\ out'.rank = position(walk_in_order(Mach'), out'.element)
          /\ out'.rank >= 1
     /\ (out'.op = "remove" /\ out'.ret) =>
          /\ out'.rank = position(walk_in_order(Mach), out'.element)
          /\ out'.rank >= 1]_vars

\* an insert of a new key reported a rank that is neither the first nor the
\* last position
C10_Witness ==
  /\ out.op = "insert"
  /\ ~out.ret
  /\ out.rank >= 3
  /\ out.rank < size[root]
  /\ walk_in_order(Mach)[out.rank] = out.element

\* the assertions of sorted_set_search_by_rank on the rank
RankAsserts == {"search_by_rank: 1 <= rank", "search_by_rank: rank <= current->size"}

\* C11: select-by-rank and remove-by-rank with a rank outside [1, size(root)]
\* (any rank on an empty set) fail a rank assertion at the first node
\* examined, before any element is copied out and before any link, size or
\* payload changes; with a rank inside [1, size(root)] no assertion fails
\* and the descent ends on a real node
C11_RankRange ==
  [][out'.op \in {"get_element_by_rank", "remove_by_rank"} =>
       /\ (out'.rank_in \notin 1 .. sorted_set_get_num_elements(Mach)) =>
            /\ abort' \in RankAsserts
            /\ out'.copy = NoElem
            /\ sorted_set_search_by_rank(Mach, out'.rank_in, TRUE, TRUE).m.search_nodes = <<>>
            /\ root' = root /\ child' = child /\ size' = size /\ elem' = elem
            /\ alloc' = alloc
       /\ (out'.rank_in \in 1 .. sorted_set_get_num_elements(Mach)) =>
            /\ abort' = "none"
            /\ ok(sorted_set_search_by_rank(Mach, out'.rank_in, TRUE, TRUE).m)
            /\ STACK_PEEK(sorted_set_search_by_rank(Mach, out'.rank_in, TRUE, TRUE)
                            .m.search_nodes) \in TreeNodes
            /\ out'.copy \in Stored]_vars

\* a remove-by-rank asked for the rank one past the last of a set of at
\* least three elements and died on a rank assertion
C11_Witness ==
  /\ out.op = "remove_by_rank"
  /\ out.rank_in = sorted_set_get_num_elements(Mach) + 1
  /\ sorted_set_get_num_elements(Mach) >= 3
  /\ abort \in RankAsserts

\* C12: contains and select-by-rank are pure lookups: whatever the
\* argument, the root link, every child link, every size and every stored
\* payload are after the call what they were before it, and no path is
\* recorded
C12_PureLookups ==
  [][/\ out'.op \in {"contains", "get_element_by_rank"} =>
          /\ root' = root /\ child' = child /\ size' = size /\ elem' = elem
          /\ alloc' = alloc
     /\ out'.op = "contains" =>
          /\ sorted_set_contains(Mach, out'.element, TRUE, TRUE).m.search_nodes = <<>>
          /\ sorted_set_contains(Mach, out'.element, TRUE, TRUE).m.search_dirs = <<>>
     /\ out'.op = "get_element_by_rank" =>
          /\ sorted_set_get_element_by_rank(Mach, out'.rank_in, TRUE).m.search_nodes = <<>>
          /\ sorted_set_get_element_by_rank(Mach, out'.rank_in, TRUE).m.search_dirs = <<>>]_vars

\* contains found a key stored below the root of a set of at least four
\* elements and copied the element out
C12_Witness ==
  /\ out.op = "contains"
  /\ out.ret
  /\ out.copy = out.element
  /\ ~is_match(out.element, elem[root])
  /\ sorted_set_get_num_elements(Mach) >= 4

\* the owner slots of the set: its root field and the child fields of its
\* allocated nodes
Slots == {RootOwner} \cup {ChildOwner(p, d) : p \in alloc, d \in 0 .. 1}

\* C13: between operations the real nodes reachable from the root form a
\* tree (each is referenced by exactly one owner slot, none lies below
\* itself), the allocated nodes are exactly the reachable ones, a new-key
\* insert allocates exactly one node and a successful removal frees exactly
\* one node
C13_NodeOwnership ==
  /\ [](/\ alloc = TreeNodes
        /\ NIL \notin alloc
        /\ \A n \in TreeNodes :
             /\ Cardinality({o \in Slots : deref(Mach, o) = n}) = 1
             /\ n \notin nodes_below(Mach, child[n][0], MaxKey + 1)
             /\ n \notin nodes_below(Mach, child[n][1], MaxKey + 1))
  /\ [][/\ (out'.op = "insert" /\ ~out'.ret) =>
             /\ alloc \subseteq sorted_set_insert(Mach, out'.element, TRUE).m.alloc
             /\ Cardinality(sorted_set_insert(Mach, out'.element, TRUE).m.alloc
                              \ alloc) = 1
             /\ Cardinality(alloc') = Cardinality(alloc) + 1
        /\ (out'.op = "insert" /\ out'.ret) => alloc' = alloc
        /\ (out'.op = "remove" /\ out'.ret) =>
             /\ sorted_set_remove(Mach, out'.element, TRUE).m.alloc \subseteq alloc
             /\ Cardinality(alloc
                              \ sorted_set_remove(Mach, out'.element, TRUE).m.alloc) = 1
             /\ Cardinality(alloc') = Cardinality(alloc) - 1
        /\ (out'.op = "remove" /\ ~out'.ret) => alloc' = alloc
        /\ (out'.op = "remove_by_rank" /\ abort' = "none") =>
             /\ sorted_set_remove_by_rank(Mach, out'.rank_in, TRUE).m.alloc
                  \subseteq alloc
             /\ Cardinality(alloc \ sorted_set_remove_by_rank(Mach, out'.rank_in, TRUE).m.alloc) = 1
             /\ Cardinality(alloc') = Cardinality(alloc) - 1]_vars

\* a removal freed a node and left four or more, all of them linked
C13_Witness ==
  /\ out.op \in {"remove", "remove_by_rank"}
  /\ out.op = "remove" => out.ret
  /\ abort = "none"
  /\ Cardinality(alloc) >= 4
  /\ alloc = TreeNodes
  /\ \E n \in TreeNodes : child[n][0] # NIL /\ child[n][1] # NIL

\* I3 at node n of machine m
balanced_at(m, n) ==
  \A d \in 0 .. 1 :
    5 * (m.size[m.child[n][1 - d]] + 1) >= 2 * (m.size[m.child[n][d]] + 1)

\* I3 at every node of the subtree at n
subtree_balanced(m, n) ==
  \A k \in nodes_below(m, n, MaxKey + 1) : balanced_at(m, k)

\* the turns of the unwind of the call that out' reports, made on the state
\* before it
unwind_of_call ==
  IF out'.op = "remove_by_rank"
  THEN sorted_set_remove_by_rank(Mach, out'.rank_in, TRUE).m.turns
  ELSE IF out'.op = "insert" THEN sorted_set_insert(Mach, out'.element, TRUE).m.turns
  ELSE IF out'.op = "remove" THEN sorted_set_remove(Mach, out'.element, TRUE).m.turns
  ELSE <<>>

\* C14: during the unwind of an insert or a removal, once node_rebalance has
\* processed an ancestor, every node of the subtree then held in that
\* ancestor's owner slot (its new root and both children included)
\* satisfies I3: one rotation per position is enough
C14_OneRotationSuffices ==
  [][\A tr \in {unwind_of_call} :
       \A i \in 1 .. Len(tr) :
         /\ ok(tr[i].m)
         /\ subtree_balanced(tr[i].m, deref(tr[i].m, tr[i].owner))]_vars

\* a call unwound over three or more ancestors and rotated at one of them,
\* moving a subtree that is not empty
C14_Witness ==
  /\ out.op \in {"insert", "remove", "remove_by_rank"}
  /\ did.steps >= 3
  /\ did.singles + did.doubles >= 1
  /\ did.moved >= 1

\* the closing assertions of rotation and double_rotation
RotationSizeAsserts == {"rotation: x->size == temp", "double_rotation: x->size == temp"}

\* the turn st rotated: the subtree now in the owner slot walks as the
\* subtree of the node popped did, has the same nodes, and its root has the
\* size the node popped had when the rotation was called
rotation_preserves(st) ==
  /\ walk(st.m, deref(st.m, st.owner), 0) = walk(st.before, st.current, 0)
  /\ nodes_below(st.m, deref(st.m, st.owner), MaxKey + 1)
       = nodes_below(st.before, st.current, MaxKey + 1)
  /\ st.m.size[deref(st.m, st.owner)]
       = 1 + st.before.size[st.before.child[st.current][0]]
           + st.before.size[st.before.child[st.current][1]]
  /\ st.m.size[deref(st.m, st.owner)]
       = Cardinality(nodes_below(st.m, deref(st.m, st.owner), MaxKey + 1))

\* C15: every rotation and double rotation performed preserves the in-order
\* sequence of the rotated subtree and its node count: the new subtree root
\* has afterwards the size the old one had before, and the asserts
\* x->size == temp never fail
C15_RotationPreserves ==
  /\ [](abort \notin RotationSizeAsserts)
  /\ [][\A tr \in {unwind_of_call} :
          \A i \in 1 .. Len(tr) :
            /\ tr[i].m.abort \notin RotationSizeAsserts
            /\ rotated(tr[i]) => rotation_preserves(tr[i])]_vars

\* a call whose only rotation was a double rotation that moved a subtree
\* that is not empty
C15_Witness ==
  /\ did.doubles = 1
  /\ did.singles = 0
  /\ did.moved = 1
  /\ abort = "none"

\* the assertions of rotation, double_rotation and node_imbalanced that a
\* node is not the empty marker
NonEmptyAsserts ==
  {"rotation: y != NIL", "rotation: x != NIL",
   "double_rotation: z != NIL", "double_rotation: y != NIL", "double_rotation: x != NIL",
   "node_imbalanced: node_p != NIL"}

\* node_rebalance called on node_p of machine m: a child found too heavy is
\* a real node, and if the double rotation is chosen its inner grandchild
\* is one
rotates_real_nodes(m, node_p) ==
  \A d \in 0 .. 1 :
    node_imbalanced(m, node_p, 5, 2, d) =>
      /\ m.child[node_p][d] # NIL
      /\ ~node_imbalanced(m, m.child[node_p][d], 2, 3, d) =>
           m.child[m.child[node_p][d]][1 - d] # NIL

\* C16: rotations are only applied to real nodes: a child node_rebalance
\* finds over-heavy by the 5:2 test is real, and when the 2:3 test on it
\* chooses the double rotation its inner grandchild is real; the non-empty
\* assertions of rotation, double_rotation and node_imbalanced never fail
C16_RotatesRealNodes ==
  /\ [](abort \notin NonEmptyAsserts)
  /\ [][\A tr \in {unwind_of_call} :
          \A i \in 1 .. Len(tr) :
            /\ tr[i].m.abort \notin NonEmptyAsserts
            /\ tr[i].current # NIL
            /\ rotates_real_nodes(update_size(tr[i].before, tr[i].current),
                                  tr[i].current)]_vars

\* a call that made a single rotation at one ancestor and a double rotation
\* at another
C16_Witness ==
  /\ did.singles >= 1
  /\ did.doubles >= 1
  /\ abort = "none"

\* the machine the call that out' reports handed to search_path_rebalance
start_of_call ==
  IF out'.op = "remove_by_rank" THEN remove_start(search_ranked(out'.rank_in))
  ELSE IF out'.op = "insert" THEN insert_start(search_keyed(out'.element), out'.element)
  ELSE remove_start(search_keyed(out'.element))

\* the call that out' reports unwound: a new-key insert or a removal
call_unwinds ==
  \/ out'.op = "insert" /\ ~out'.ret
  \/ out'.op = "remove" /\ out'.ret
  \/ out'.op = "remove_by_rank" /\ abort' = "none"

\* turn st left what one rotation at the popped node, or none, makes of the
\* machine mu in which the popped node has its size recomputed; it rotated
\* exactly if the 5:2 test on mu finds a child too heavy
one_turn(st, mu) ==
  /\ mu.size[st.current] = 1 + st.before.size[st.before.child[st.current][0]]
                             + st.before.size[st.before.child[st.current][1]]
  /\ \/ st.m = mu
     \/ \E d \in 0 .. 1 : st.m = store_ret(rotation(mu, st.current, d), st.owner)
     \/ \E d \in 0 .. 1 : st.m = store_ret(double_rotation(mu, st.current, d), st.owner)
  /\ rotated(st) <=> \E d \in 0 .. 1 : node_imbalanced(mu, st.current, 5, 2, d)
  /\ st.m.size[deref(st.m, st.owner)]
       = 1 + st.m.size[st.m.child[deref(st.m, st.owner)][0]]
           + st.m.size[st.m.child[deref(st.m, st.owner)][1]]

\* the machine turn i of tr started on: the one the turn before it left,
\* u0 for the first, with the top node and direction popped
turn_start(u0, tr, i) ==
  get_owner(pop_dir(pop_node(IF i = 1 THEN u0 ELSE tr[i - 1].m))).m

\* the machine the unwind tr of u0 left
unwind_end(u0, tr) == IF Len(tr) = 0 THEN u0 ELSE tr[Len(tr)].m

\* the turns tr of the unwind that started on machine u0
unwind_in_order(u0, tr) ==
  /\ Len(tr) = stack_num_elmnts(u0.search_nodes)
  /\ Len(tr) = stack_num_elmnts(u0.search_dirs)
  /\ \A i \in 1 .. Len(tr) :
       /\ tr[i].before = turn_start(u0, tr, i)
       /\ tr[i].current = u0.search_nodes[Len(tr) + 1 - i]
       /\ tr[i].owner = IF i = Len(tr) THEN RootOwner
                        ELSE ChildOwner(u0.search_nodes[Len(tr) - i],
                                        u0.search_dirs[Len(tr) - i])
       /\ one_turn(tr[i], update_size(tr[i].before, tr[i].current))
  /\ Len(tr) > 0 => tr[Len(tr)].current = u0.root
  /\ stack_is_empty(unwind_end(u0, tr).search_nodes)
  /\ stack_is_empty(unwind_end(u0, tr).search_dirs)
  /\ \A f \in {canon(unwind_end(u0, tr))} :
       root' = f.root /\ child' = f.child /\ size' = f.size /\ elem' = f.elem

\* C17: after a new-key insert or a successful removal every node left on
\* the recorded path is processed exactly once, the deepest first and the
\* root last; its size is recomputed from its current children before its
\* imbalance test runs, at most one rotation is applied at it, and the
\* unwind ends with both path stacks empty
C17_UnwindOrder ==
  [][call_unwinds =>
       \A u0 \in {start_of_call} : \A tr \in {unwind_of_call} : unwind_in_order(u0, tr)]_vars

\* a remove found its key in a node with two children, went on to the
\* successor, and unwound over two or more nodes with a rotation
C17_Witness ==
  /\ out.op = "remove"
  /\ out.ret
  /\ did.copied
  /\ did.steps >= 2
  /\ did.singles + did.doubles >= 1

\* the recorded nodes are real and go from the root down, each the child in
\* the recorded direction of the one before it
path_is_chain(m) ==
  /\ \A i \in 1 .. Len(m.search_nodes) : m.search_nodes[i] \in TreeNodes
  /\ \A i \in 1 .. Len(m.search_dirs) : m.search_dirs[i] \in 0 .. 1
  /\ Len(m.search_nodes) > 0 => m.search_nodes[1] = m.root
  /\ \A i \in 1 .. Len(m.search_nodes) - 1 :
       m.search_nodes[i + 1] = m.child[m.search_nodes[i]][m.search_dirs[i]]

\* the slot the last (node, direction) pair names, the root field when the
\* path is empty
last_slot(m) ==
  IF Len(m.search_nodes) = 0 THEN m.root
  ELSE m.child[m.search_nodes[Len(m.search_nodes)]][m.search_dirs[Len(m.search_dirs)]]

\* the path-recording search for element returned s
path_shape(s, element) ==
  /\ ok(s.m)
  /\ path_is_chain(s.m)
  /\ s.ret =>
       /\ Len(s.m.search_nodes) = Len(s.m.search_dirs) + 1
       /\ is_match(element, s.m.elem[STACK_PEEK(s.m.search_nodes)])
  /\ ~s.ret =>
       /\ Len(s.m.search_nodes) = Len(s.m.search_dirs)
       /\ last_slot(s.m) = NIL

\* C18: after a path-recording keyed search, a found key leaves one more
\* node than directions on the stacks and the top node matches the key; a
\* key not found leaves as many nodes as directions and the slot named by
\* the last pair (the root field when the path is empty) holds the empty
\* marker; each recorded node is the child, in the recorded direction, of
\* the node recorded before it.  The search by rank of remove-by-rank
\* leaves a path of the first kind.
C18_PathShape ==
  [][/\ out'.op \in {"insert", "remove"} =>
          \A s \in {search_keyed(out'.element)} :
            /\ s.ret = out'.ret
            /\ path_shape(s, out'.element)
     /\ (out'.op = "remove_by_rank" /\ abort' = "none") =>
          \A s \in {search_ranked(out'.rank_in)} :
            /\ path_is_chain(s.m)
            /\ Len(s.m.search_nodes) = Len(s.m.search_dirs) + 1
            /\ s.m.elem[STACK_PEEK(s.m.search_nodes)] = out'.copy]_vars

\* an insert found its key at the end of a recorded path of three or more
\* nodes: in a node that is neither the root nor a child of the root
C18_Witness ==
  /\ out.op = "insert"
  /\ out.ret
  /\ did.steps = 0
  /\ \E n \in TreeNodes \ {root, child[root][0], child[root][1]} :
       is_match(out.element, elem[n])

\* the sentinel as it was defined: size 0, both children itself
sentinel_intact(m) ==
  /\ m.size[NIL] = 0
  /\ m.child[NIL] = [d \in 0 .. 1 |-> NIL]
  /\ m.elem[NIL] = NoElem
  /\ m.abort # "binary_node_get_element: node_p != NIL"

\* C19: the shared sentinel is never written and its payload never read:
\* in every state, and at every step inside every call, its size is 0 and
\* both of its child links point to itself, and the assert node_p != NIL of
\* binary_node_get_element never fails
C19_SentinelUntouched ==
  /\ [](sentinel_intact(Mach))
  /\ [][/\ sentinel_intact(Mach')
        /\ out'.op \in {"insert", "remove"} =>
             sentinel_intact(search_keyed(out'.element).m)
        /\ out'.op = "remove_by_rank" => sentinel_intact(search_ranked(out'.rank_in).m)
        /\ call_unwinds =>
             \A u0 \in {start_of_call} :
               /\ sentinel_intact(u0)
               /\ \A tr \in {unwind_of_call} :
                    \A i \in 1 .. Len(tr) : sentinel_intact(tr[i].m)]_vars

\* a remove-by-rank spliced a node out and made a double rotation on the
\* way up; leaves hang on the sentinel, which is as it was
C19_Witness ==
  /\ out.op = "remove_by_rank"
  /\ abort = "none"
  /\ did.doubles >= 1
  /\ \E n \in TreeNodes : child[n][0] = NIL /\ child[n][1] = NIL
  /\ size[NIL] = 0
  /\ child[NIL][0] = NIL /\ child[NIL][1] = NIL

\* the assertions on the owner slot and on the pair it is recovered from
OwnerAsserts ==
  {"node_rebalance: *owner == node_p", "remove_helper: *owner == node_p",
   "get_owner: num nodes == num dirs", "get_owner: parent != NIL"}

\* the machine u0 remove_helper left: it freed one node, and the slot its
\* top (node, direction) pair names, the root field when its path is empty,
\* held that node in the state before
splice_owner_held(u0) ==
  /\ ok(u0)
  /\ Cardinality(alloc \ u0.alloc) = 1
  /\ Len(u0.search_nodes) = Len(u0.search_dirs)
  /\ \A n \in alloc \ u0.alloc :
       n = IF Len(u0.search_nodes) = 0 THEN root
           ELSE child[STACK_PEEK(u0.search_nodes)][STACK_PEEK(u0.search_dirs)]

\* C20: owner resolution is always correct: at the splice of remove_helper,
\* also after the path was extended to the successor, and at every turn of
\* the unwind, also after a rotation replaced a child subtree's root, the
\* owner slot recovered from the top pair of the path (the root field when
\* the path is empty) holds exactly the node being processed; the asserts
\* *owner == node_p never fail
C20_OwnerResolution ==
  /\ [](abort \notin OwnerAsserts)
  /\ [][call_unwinds =>
          \A u0 \in {start_of_call} :
            /\ u0.abort \notin OwnerAsserts
            /\ out'.op \in {"remove", "remove_by_rank"} => splice_owner_held(u0)
            /\ \A tr \in {unwind_of_call} :
                 \A i \in 1 .. Len(tr) :
                   /\ tr[i].m.abort \notin OwnerAsserts
                   /\ deref(tr[i].before, tr[i].owner) = tr[i].current
                   /\ tr[i].owner = get_owner(tr[i].before).ret]_vars

\* a removal by rank went on from the node found to its successor, and the
\* unwind rotated
C20_Witness ==
  /\ out.op = "remove_by_rank"
  /\ abort = "none"
  /\ did.copied
  /\ did.singles + did.doubles >= 1
====
